---- MODULE Spec2Model ----
(***************************************************************************)
(* Model of the adaptive container compressor of adaptive_compressor.py:   *)
(* marker search, file header, chunk planning, chunk encoding, the chunk   *)
(* stream with its end package, and the decoder with its digest check.     *)
(* Bytes are integers 0..255, byte strings are sequences of bytes.         *)
(***************************************************************************)
EXTENDS Integers, Sequences, FiniteSets, TLC

VARIABLES
    file_data,            \* bytes of the input file given to compress
    initial_chunk_size,   \* AdaptiveCompressor.initial_chunk_size
    sample_size,          \* AdaptiveCompressor.sample_size
    use_multithreading,   \* AdaptiveCompressor.use_multithreading
    pc,                   \* position of the driver in compress / decompress
    marker_bytes,         \* self.marker_bytes
    marker_length,        \* self.marker_length (bits)
    marker_bytes_aligned, \* self.marker_bytes_aligned
    header,               \* header built by compress
    position,             \* planning loop: position in file_data
    chunks,               \* planning loop: planned (position, size, method_id)
    results,              \* per plan index: whether the chunk is encoded, its bytes
    chunk_stats,          \* self.chunk_stats
    raised,               \* plan indices of the chunks whose codec raised in compress
    archive,              \* bytes of the compressed file on disk
    truncated,            \* TRUE once the archive on disk lost its last 4 bytes
    corrupted,            \* TRUE once a byte of the archive on disk was overwritten
    header_info,          \* decompress: parsed header
    data_to_decompress,   \* decompress: chunk stream after the header
    pos,                  \* decode loop: read position
    decompressed,         \* decode loop: output accumulated so far
    loop_exit,            \* decode loop: how the loop was left
    output_file,          \* the output file of decompress: whether it exists, its content
    outcome,              \* result of decompress: "none", "ok" or the error raised
    decompress_stats,     \* the statistics decompress returns
    call,                 \* a direct call of one method: its arguments and its result
    calls_made            \* compress calls made on the instance before the current one

vars == << file_data, initial_chunk_size, sample_size, use_multithreading, pc,
           marker_bytes, marker_length, marker_bytes_aligned, header, position,
           chunks, results, chunk_stats, raised, archive, truncated, corrupted,
           header_info, data_to_decompress, pos, decompressed, loop_exit, output_file, outcome,
           decompress_stats, call, calls_made >>

None == "None"

(***************************************************************************)
(* Bounds of the model.                                                    *)
(***************************************************************************)
MaxLen == 8

\* compress calls on one instance after its first one
MaxReuse == 1

\* direct calls of codec.decompress: longest payload, largest expected length
MaxPayloadLen == 2

MaxExpected == 3

\* byte values the input files are drawn from
InputBytes == {0, 127}

\* option sets of the compressor: the defaults (chunk size 4096, sample size
\* 10000, no multithreading), a small sample size, small chunk sizes with the
\* worker pool enabled
Options ==
    { [initial_chunk_size |-> 4096, sample_size |-> 10000, use_multithreading |-> FALSE],
      [initial_chunk_size |-> 4096, sample_size |-> 2, use_multithreading |-> FALSE],
      [initial_chunk_size |-> 7, sample_size |-> 10000, use_multithreading |-> TRUE],
      [initial_chunk_size |-> 4, sample_size |-> 2, use_multithreading |-> TRUE] }

(***************************************************************************)
(* Byte and bit helpers.                                                   *)
(***************************************************************************)
Min(a, b) == IF a <= b THEN a ELSE b

Max(a, b) == IF a >= b THEN a ELSE b

Zeros(n) == [i \in 1..n |-> 0]

\* data[from:to] of Python, 0-based, end exclusive, clamped to the data
Slice(data, from, to) == SubSeq(data, Min(from, Len(data)) + 1, Min(to, Len(data)))

\* struct.pack('<I'), struct.pack('<Q'): little-endian, n bytes
RECURSIVE PackLE(_, _)
PackLE(value, n) ==
    IF n = 0 THEN << >> ELSE << value % 256 >> \o PackLE(value \div 256, n - 1)

RECURSIVE UnpackLE(_)
UnpackLE(bytes) ==
    IF bytes = << >> THEN 0 ELSE Head(bytes) + 256 * UnpackLE(Tail(bytes))

\* bitarray.frombytes: each byte MSB first
Bits(data) ==
    [k \in 1..(8 * Len(data)) |->
        (data[((k - 1) \div 8) + 1] \div (2 ^ (7 - ((k - 1) % 8)))) % 2]

\* int(bits.to01(), 2)
RECURSIVE BitsValue(_)
BitsValue(bits) ==
    IF bits = << >> THEN 0
    ELSE 2 * BitsValue(SubSeq(bits, 1, Len(bits) - 1)) + bits[Len(bits)]

\* bitarray.tobytes of a bit string whose length is a multiple of 8
BitsToBytes(bits) ==
    [k \in 1..(Len(bits) \div 8) |-> BitsValue(SubSeq(bits, 8 * k - 7, 8 * k))]

\* bin(value)[2:].zfill(len)
ValueBits(value, len) == [k \in 1..len |-> (value \div (2 ^ (len - k))) % 2]

PadToByte(bits) == bits \o Zeros((8 - (Len(bits) % 8)) % 8)

\* hashlib.md5(data).digest(): 16 bytes.  MD5 is taken as collision free on the
\* inputs of the model: the digest is an injective 16-byte encoding of the data.
MD5(data) ==
    SubSeq(<< Len(data) % 256 >> \o data \o Zeros(16), 1, 16)

(***************************************************************************)
(* Marker search: AdaptiveCompressor._find_marker, the class's own         *)
(* implementation.                                                         *)
(***************************************************************************)
MaxMarkerBits == 16

\* the bytes examined: the whole data, or a stride sample of it
SampleData(data, sample) ==
    IF sample # 0 /\ Len(data) > sample
    THEN LET step == Len(data) \div sample
             n    == (Len(data) + step - 1) \div step
             sampled == [k \in 1..n |-> data[(k - 1) * step + 1]]
         IN  SubSeq(sampled, 1, Min(sample, n))
    ELSE data

\* found[value]: the values of all bit windows of the given length
FoundPatterns(bits, len) ==
    { BitsValue(SubSeq(bits, i, i + len - 1)) : i \in 1..(Len(bits) - len + 1) }

\* the search keeps the last missing value instead of returning the first
LastMissing(bits, len) ==
    LET found == FoundPatterns(bits, len)
    IN  CHOOSE v \in 0..(2 ^ len - 1) :
            /\ v \notin found
            /\ \A w \in (v + 1)..(2 ^ len - 1) : w \in found

\* the first i in range(possible_patterns) with not found[i]
FirstMissing(bits, len) ==
    LET found == FoundPatterns(bits, len)
    IN  CHOOSE v \in 0..(2 ^ len - 1) :
            /\ v \notin found
            /\ \A w \in 0..(v - 1) : w \in found

\* marker_bytes of a missing value: left-aligned, zero-padded to whole bytes
MarkerBytesOf(value, len) == BitsToBytes(PadToByte(ValueBits(value, len)))

FallbackMarker == << 255, 255, 0, 0 >>

FallbackLength == 32

RECURSIVE SearchMarker(_, _)
SearchMarker(bits, len) ==
    IF len > MaxMarkerBits
    THEN [bytes |-> FallbackMarker, length |-> FallbackLength]
    ELSE IF Cardinality(FoundPatterns(bits, len)) < 2 ^ len
         THEN [bytes |-> MarkerBytesOf(FirstMissing(bits, len), len), length |-> len]
         ELSE SearchMarker(bits, len + 1)

FindMarker(data, sample) == SearchMarker(Bits(SampleData(data, sample)), 1)

(***************************************************************************)
(* AdaptiveCompressor._init_marker: the aligned marker bytes written in    *)
(* front of every package and searched for by the decoder.                 *)
(***************************************************************************)
MarkerPattern(bytes, length) == SubSeq(Bits(bytes), 1, Min(length, 8 * Len(bytes)))

AlignedMarker(bytes, length) ==
    LET pattern == MarkerPattern(bytes, length)
    IN  IF length <= 8
        THEN << BitsValue(pattern) * (2 ^ (8 - length)) >>
        ELSE BitsToBytes(PadToByte(pattern))

(***************************************************************************)
(* File header: _create_header, _update_header_compressed_size and         *)
(* _parse_header.                                                          *)
(***************************************************************************)
MAGIC_NUMBER == << 65, 77, 66, 67 >>

FORMAT_VERSION == 2

ChecksumTypeMD5 == 1

CreateHeader(mbytes, mlength, checksum, original_size) ==
    LET body == MAGIC_NUMBER \o << FORMAT_VERSION >> \o Zeros(4) \o << mlength >>
                \o mbytes \o << ChecksumTypeMD5 >> \o checksum
                \o PackLE(original_size, 8) \o Zeros(8)
    IN  SubSeq(body, 1, 5) \o PackLE(Len(body), 4) \o SubSeq(body, 10, Len(body))

\* the field receives the size of the whole file, header included
UpdateHeaderTotalSize(hdr, compressed_size) ==
    SubSeq(hdr, 1, Len(hdr) - 8) \o PackLE(compressed_size + Len(hdr), 8)

UpdateHeaderCompressedSize(hdr, compressed_size) ==
    SubSeq(hdr, 1, Len(hdr) - 8) \o PackLE(compressed_size, 8)

\* the reads of _parse_header that raise: a bad magic number, a version that is
\* too new, an index past the end, a struct.unpack of fewer bytes than asked
HeaderError(data) ==
    IF Slice(data, 0, 4) # MAGIC_NUMBER THEN "invalid_magic"
    ELSE IF Len(data) < 5 THEN "truncated_header"
    ELSE IF data[5] > FORMAT_VERSION THEN "unsupported_version"
    ELSE IF Len(data) < 10 THEN "truncated_header"
    ELSE LET msize == (data[10] + 7) \div 8
         IN  IF Len(data) < 11 + msize THEN "truncated_header"
             ELSE LET csize == IF data[11 + msize] = ChecksumTypeMD5 THEN 16 ELSE 0
                  IN  IF Len(data) < 11 + msize + csize + 16
                      THEN "truncated_header"
                      ELSE None

ParseHeader(data) ==
    LET mlength == data[10]
        msize   == (mlength + 7) \div 8
        ctype   == data[11 + msize]
        csize   == IF ctype = ChecksumTypeMD5 THEN 16 ELSE 0
        opos    == 11 + msize + csize
    IN  [ format_version  |-> data[5],
          header_size     |-> UnpackLE(Slice(data, 5, 9)),
          marker_length   |-> mlength,
          marker_bytes    |-> Slice(data, 10, 10 + msize),
          checksum_type   |-> ctype,
          checksum        |-> Slice(data, 11 + msize, 11 + msize + csize),
          original_size   |-> UnpackLE(Slice(data, opos, opos + 8)),
          compressed_size |-> UnpackLE(Slice(data, opos + 8, opos + 16)) ]

(***************************************************************************)
(* Codec registry.  The registry holds the four basic codecs, the codecs   *)
(* of the Python standard library (DEFLATE, BZIP2, LZMA) and the store     *)
(* codec; the optional libraries (zstandard, lz4, brotli, pylzham) are     *)
(* taken as not installed.                                                 *)
(***************************************************************************)
RLE == 1

Dictionary == 2

Huffman == 3

Delta == 4

DEFLATE == 5

BZIP2 == 6

LZMA == 7

NoCompression == 255

\* keys of self.method_lookup
RegisteredIds == {RLE, Dictionary, Huffman, Delta, DEFLATE, BZIP2, LZMA, NoCompression}

\* classes whose name contains 'Compatible' (none is registered)
CompatibleIds == {}

\* number of leading bytes of data equal to its first byte, at most 255
RunLength(data) ==
    IF data = << >> THEN 0
    ELSE LET limit == Min(255, Len(data))
         IN  CHOOSE n \in 1..limit :
                /\ \A i \in 1..n : data[i] = data[1]
                /\ n = limit \/ data[n + 1] # data[1]

\* the (count, byte) pairs of data that is one run of equal bytes: counts of
\* 255 and the rest
RunPairs(data) ==
    LET pairs == (Len(data) + 254) \div 255
    IN  [k \in 1..(2 * pairs) |->
            IF k % 2 = 0 THEN data[1]
            ELSE IF k = 2 * pairs - 1 THEN Len(data) - 255 * (pairs - 1)
            ELSE RunLength(data)]

\* the (count, byte) pairs of the runs of data, a run of more than 255 bytes
\* in several pairs.  The pairs of the runs are those of the runs in front
\* of a place where the byte changes followed by those of the runs behind
\* it; the data is divided at the change nearest to its middle.
RECURSIVE RLECompress(_)
RLECompress(data) ==
    IF data = << >> THEN << >>
    ELSE LET changes == {i \in 1..(Len(data) - 1) : data[i] # data[i + 1]}
             behind == {i \in changes : i >= Len(data) \div 2}
             cut == IF behind # {}
                    THEN CHOOSE i \in behind : \A j \in behind : i <= j
                    ELSE CHOOSE i \in changes : \A j \in changes : i >= j
         IN  IF changes = {} THEN RunPairs(data)
             ELSE RLECompress(SubSeq(data, 1, cut))
                     \o RLECompress(SubSeq(data, cut + 1, Len(data)))

RECURSIVE RLEExpand(_)
RLEExpand(payload) ==
    IF payload = << >> THEN << >>
    ELSE [i \in 1..payload[1] |-> payload[2]] \o RLEExpand(SubSeq(payload, 3, Len(payload)))

\* pad with zeros or truncate to the expected length
FitLength(data, n) == SubSeq(data \o Zeros(n - Min(n, Len(data))), 1, n)

RLEDecompress(payload, n) ==
    IF Len(payload) % 2 # 0 \/ \E k \in 1..(Len(payload) \div 2) : payload[2 * k - 1] = 0
    THEN Zeros(n)
    ELSE FitLength(RLEExpand(payload), n)

\* Delta: the first byte, then the differences of adjacent bytes modulo 256
DeltaCompress(data) ==
    [i \in 1..Len(data) |-> IF i = 1 THEN data[1] ELSE (data[i] - data[i - 1] + 256) % 256]

RECURSIVE DeltaExpand(_, _)
DeltaExpand(payload, last) ==
    IF payload = << >> THEN << >>
    ELSE LET b == (last + payload[1]) % 256
         IN  << b >> \o DeltaExpand(Tail(payload), b)

DeltaDecompress(payload, n) == FitLength(DeltaExpand(payload, 0), n)

\* fraction of adjacent positions with equal bytes, as a pair (count, positions)
AdjacentEqual(data) == Cardinality({i \in 1..(Len(data) - 1) : data[i] = data[i + 1]})

AdjacentSmallDelta(data) ==
    Cardinality({i \in 1..(Len(data) - 1) :
        (IF data[i] >= data[i + 1] THEN data[i] - data[i + 1] ELSE data[i + 1] - data[i]) < 32})

\* method.should_use(chunk).  The length thresholds of the codecs: on shorter
\* chunks the codec is not tried; the model keeps its chunks below the
\* thresholds of every codec but RLE and Delta.
BasicMinUseLength(id) ==
    CASE id = RLE -> 4
      [] id = Dictionary -> 16
      [] id = Huffman -> 32
      [] id = Delta -> 2
      [] OTHER -> 0

\* the length tests of DeflateCompression, Bzip2Compression and
\* LZMACompression.should_use
AdvancedMinUseLength(id) ==
    CASE id = DEFLATE -> 50
      [] id = BZIP2 -> 100
      [] id = LZMA -> 1000

MinUseLength(id) ==
    IF id \in {DEFLATE, BZIP2, LZMA} THEN AdvancedMinUseLength(id)
    ELSE BasicMinUseLength(id)

ShouldUse(id, data) ==
    /\ Len(data) >= MinUseLength(id)
    /\ id = RLE => 10 * AdjacentEqual(data) >= Len(data) - 1
    /\ id = Delta => 4 * AdjacentSmallDelta(data) > Len(data) - 1

\* method.compress(chunk).  The outputs of the codecs whose should_use rejects
\* every chunk of the model are not modelled: they are never asked for.
CodecCompress(id, data) ==
    CASE id = RLE -> RLECompress(data)
      [] id = Delta -> DeltaCompress(data)
      [] OTHER -> data

\* method.decompress(data, original_length).  DEFLATE, BZIP2 and LZMA return
\* b'' for an empty payload; a payload of the model is never a valid stream
\* of theirs, so the library raises and they return original_length zeros.
AdvancedDecompress(payload, n) == IF payload = << >> THEN << >> ELSE Zeros(n)

BasicDecompress(id, payload, n) ==
    CASE id = RLE -> RLEDecompress(payload, n)
      [] id = Delta -> DeltaDecompress(payload, n)
      [] id = NoCompression -> FitLength(payload, n)
      [] OTHER -> Zeros(n)

CodecDecompress(id, payload, n) ==
    IF id \in {DEFLATE, BZIP2, LZMA} THEN AdvancedDecompress(payload, n)
    ELSE BasicDecompress(id, payload, n)

(***************************************************************************)
(* Packages: _encode_variable_length, _read_variable_length_int,           *)
(* _calculate_package_overhead, _create_package, _create_end_package.      *)
(***************************************************************************)
\* the 7-bit groups are written most significant first
EncodeVariableLengthBigEndian(value) ==
    IF value < 128 THEN << value >>
    ELSE IF value < 16384
         THEN << 128 + ((value \div 128) % 128), value % 128 >>
    ELSE IF value < 2097152
         THEN << 128 + ((value \div 16384) % 128), 128 + ((value \div 128) % 128),
                 value % 128 >>
    ELSE << 128 + ((value \div 2097152) % 128), 128 + ((value \div 16384) % 128),
            128 + ((value \div 128) % 128), value % 128 >>

EncodeVariableLength(value) ==
    IF value < 128 THEN << value >>
    ELSE IF value < 16384
         THEN << 128 + (value % 128), (value \div 128) % 128 >>
    ELSE IF value < 2097152
         THEN << 128 + (value % 128), 128 + ((value \div 128) % 128),
                 (value \div 16384) % 128 >>
    ELSE << 128 + (value % 128), 128 + ((value \div 128) % 128),
            128 + ((value \div 16384) % 128), (value \div 2097152) % 128 >>

RECURSIVE ReadMoreBytes(_, _, _, _, _)
ReadMoreBytes(data, p, value, shift, num_bytes) ==
    IF p < Len(data) /\ num_bytes < 4
    THEN LET byte == data[p + 1]
         IN  IF byte < 128
             THEN [value |-> value + byte * (2 ^ shift), pos |-> p + 1]
             ELSE ReadMoreBytes(data, p + 1, value + (byte % 128) * (2 ^ shift),
                                shift + 7, num_bytes + 1)
    ELSE [value |-> value, pos |-> p]

\* positions are 0-based, as in the code
ReadVariableLengthInt(data, p) ==
    IF p >= Len(data) THEN [value |-> 0, pos |-> p]
    ELSE LET first == data[p + 1]
         IN  IF first < 128
             THEN [value |-> first, pos |-> p + 1]
             ELSE ReadMoreBytes(data, p + 1, first % 128, 7, 1)

VarLenSize(value) ==
    IF value < 128 THEN 1 ELSE IF value < 16384 THEN 2 ELSE IF value < 2097152 THEN 3 ELSE 4

\* the two length fields are left out of the estimate
CalculatePackageOverheadNoLengths(aligned, original_length) == Len(aligned) + 1

\* the overhead is the fixed frame of marker, type, flags and three sizes
CalculatePackageOverheadFixed(aligned, original_length) == Len(aligned) + 12

CalculatePackageOverhead(aligned, original_length) ==
    Len(aligned) + 1 + VarLenSize(original_length) + VarLenSize(original_length)

\* the two lengths are written in the wrong order
CreatePackageSwapped(aligned, package_type, data, original_length) ==
    aligned \o << package_type >> \o EncodeVariableLength(Len(data))
            \o EncodeVariableLength(original_length) \o data

CreatePackage(aligned, package_type, data, original_length) ==
    aligned \o << package_type >> \o EncodeVariableLength(original_length)
            \o EncodeVariableLength(Len(data)) \o data

END_PACKAGE_TYPE == 0

\* the end package written as a full fixed-width frame of zero fields
\* no end package is written
CreateEndPackageOmitted(aligned) == << >>

CreateEndPackageFullFrame(aligned) == aligned \o << END_PACKAGE_TYPE >> \o Zeros(11)

CreateEndPackage(aligned) == aligned \o << END_PACKAGE_TYPE >>

\* _process_chunk: the bytes emitted for one planned chunk and its statistics
\* the chunk whose codec raised is reported as a compressed chunk of no bytes
ProcessChunkRaisedLost(chunk_data) ==
    [ data |-> << >>, compressed |-> TRUE, method_id |-> RLE,
      compressed_size |-> 0, overhead |-> 0, bytes_saved |-> Len(chunk_data) ]

\* _process_chunk when method.compress raises: the except branch returns the
\* chunk's own bytes and the statistics of a stored chunk
ProcessChunkRaised(chunk_data) ==
    [ data |-> chunk_data, compressed |-> FALSE, method_id |-> NoCompression,
      compressed_size |-> Len(chunk_data), overhead |-> 0, bytes_saved |-> 0 ]

ProcessChunk(aligned, chunk_data, method_id) ==
    LET raw == [ data |-> chunk_data, compressed |-> FALSE, method_id |-> NoCompression,
                 compressed_size |-> Len(chunk_data), overhead |-> 0, bytes_saved |-> 0 ]
    IN  IF method_id = NoCompression \/ method_id \notin RegisteredIds
        THEN raw
        ELSE LET compressed_data == CodecCompress(method_id, chunk_data)
                 overhead == CalculatePackageOverhead(aligned, Len(chunk_data))
             IN  IF Len(compressed_data) + overhead < Len(chunk_data)
                 THEN [ data |-> CreatePackage(aligned, method_id, compressed_data,
                                               Len(chunk_data)),
                        compressed |-> TRUE, method_id |-> method_id,
                        compressed_size |-> Len(compressed_data),
                        overhead |-> overhead,
                        bytes_saved |-> Len(chunk_data) - (Len(compressed_data) + overhead) ]
                 ELSE raw

(***************************************************************************)
(* Data profile and codec prediction: _calculate_entropy,                  *)
(* _calculate_repetition_score, _calculate_variation_score,                *)
(* _calculate_text_score, _predict_best_methods.  The scores are floats in *)
(* the code; here they are integers in millionths (Unit), and the codec    *)
(* scores are in ten-millionths so that every coefficient is an integer.   *)
(***************************************************************************)
Unit == 10 ^ 6

\* log2(k) in millionths, k in 1..16
Log2Table ==
    << 0, 1000000, 1584963, 2000000, 2321928, 2584963, 2807355, 3000000,
       3169925, 3321928, 3459432, 3584963, 3700440, 3807355, 3906891, 4000000 >>

ByteCount(data, v) == Cardinality({i \in 1..Len(data) : data[i] = v})

RECURSIVE SumOver(_, _, _)
SumOver(data, values, acc) ==
    IF values = {} THEN acc
    ELSE LET v == CHOOSE w \in values : TRUE
         IN  SumOver(data, values \ {v},
                     acc + ByteCount(data, v) * Log2Table[ByteCount(data, v)])

\* -sum(p * log2(p)) = log2(n) - sum(c * log2(c)) / n
Entropy(data) ==
    IF data = << >> THEN 0
    ELSE (Len(data) * Log2Table[Len(data)]
            - SumOver(data, {data[i] : i \in 1..Len(data)}, 0)) \div Len(data)

ProfileSampleLimit == 1000

\* the stride sample the three scores take of data longer than 1000 bytes
ProfileSample(data) == SampleData(data, ProfileSampleLimit)

RepetitionScore(data) ==
    IF Len(data) < 4 THEN 0
    ELSE LET d == ProfileSample(data)
         IN  (AdjacentEqual(d) * Unit) \div (Len(d) - 1)

VariationScore(data) ==
    IF Len(data) < 4 THEN 0
    ELSE LET d == ProfileSample(data)
         IN  (AdjacentSmallDelta(d) * Unit) \div (Len(d) - 1)

IsTextByte(b) == (32 <= b /\ b <= 127) \/ b \in {9, 10, 13}

TextScore(data) ==
    IF data = << >> THEN 0
    ELSE LET d == ProfileSample(data)
         IN  (Cardinality({i \in 1..Len(d) : IsTextByte(d[i])}) * Unit) \div Len(d)

\* entropy > 7.8
EntropyCutoff == (78 * Unit) \div 10

\* method_scores[id] before the adjustments, times ten
BaseScore(id, h, r, d, t) ==
    CASE id = 1 -> 100 * r - 10 * h
      [] id = 2 -> 80 * t + 40 * r - 8 * h
      [] id = 3 -> 100 * Unit - 12 * h
      [] id = 4 -> 100 * d - 7 * h
      [] id = 5 -> 70 * Unit - 8 * h + 30 * t
      [] id = 6 -> 75 * t - 6 * h
      [] id = 7 -> 60 * Unit - 6 * h + 20 * r
      [] id = 8 -> 60 * Unit - 7 * h + 20 * t + 20 * r
      [] id = 9 -> 50 * Unit - 6 * h + 15 * r
      [] id = 10 -> 70 * t - 5 * h
      [] id = 11 -> 50 * Unit - 6 * h + 30 * (Unit - t)

ScoredIds == 1..11

\* method_scores after the adjustments, for the registered ids among 1..11
MethodScores(data) ==
    LET h == Entropy(data)
        r == RepetitionScore(data)
        d == VariationScore(data)
        t == TextScore(data)
    IN  [id \in ScoredIds \cap RegisteredIds |->
            BaseScore(id, h, r, d, t)
              + (IF id \in {1, 2, 3, 4, 6} THEN 20 * Unit ELSE 0)
              - (IF id \in {8, 10} /\ id \notin CompatibleIds THEN 30 * Unit ELSE 0)]

\* sorted(..., reverse=True)[:k]: highest score first; the sort is stable, so
\* equal scores keep the order of insertion, which is the order of the ids
RECURSIVE TopMethods(_, _, _)
TopMethods(ids, scores, k) ==
    IF k = 0 \/ ids = {} THEN << >>
    ELSE LET best == CHOOSE a \in ids : \A b \in ids :
                        \/ scores[a] > scores[b]
                        \/ (scores[a] = scores[b] /\ a <= b)
         IN  << best >> \o TopMethods(ids \ {best}, scores, k - 1)

PredictBestMethods(data, max_methods) ==
    IF Entropy(data) > EntropyCutoff THEN << NoCompression >>
    ELSE TopMethods(ScoredIds \cap RegisteredIds, MethodScores(data), max_methods)
            \o << NoCompression >>

(***************************************************************************)
(* Chunk planner: _determine_optimal_chunk.  Ratios are compared as        *)
(* fractions (compressed length, chunk length).                            *)
(***************************************************************************)
MaxChunkSize == 65536

\* best_method_id = None
NoMethod == -1

MinSizeIncrement == 1024

\* the loop over the predicted methods: keeps the best ratio below the start
RECURSIVE TestMethods(_, _, _, _)
TestMethods(method_ids, chunk, best_id, best_len) ==
    IF method_ids = << >> THEN [method_id |-> best_id, compressed_len |-> best_len]
    ELSE LET id == Head(method_ids)
             usable == id \in RegisteredIds /\ ShouldUse(id, chunk)
             clen == Len(CodecCompress(id, chunk))
         IN  IF usable /\ clen < best_len
             THEN TestMethods(Tail(method_ids), chunk, id, clen)
             ELSE TestMethods(Tail(method_ids), chunk, best_id, best_len)

\* the extension goes on as long as should_use accepts the longer slice
RECURSIVE ExtendChunkAnyRatio(_, _, _, _, _, _, _, _)
ExtendChunkAnyRatio(data, start, method_id, size, increment, max_size, best_size, best_len) ==
    IF size > max_size THEN best_size
    ELSE IF ~ShouldUse(method_id, Slice(data, start, start + size)) THEN best_size
    ELSE ExtendChunkAnyRatio(data, start, method_id, size + increment, increment,
                             max_size, size, best_len)

\* the extension loop: sizes current + increment, ... up to max_size
RECURSIVE ExtendChunk(_, _, _, _, _, _, _, _)
ExtendChunk(data, start, method_id, size, increment, max_size, best_size, best_len) ==
    IF size > max_size THEN best_size
    ELSE LET next_chunk == Slice(data, start, start + size)
             clen == Len(CodecCompress(method_id, next_chunk))
         IN  IF ~ShouldUse(method_id, next_chunk) THEN best_size
             ELSE IF 100 * clen * best_size > 103 * best_len * size THEN best_size
             ELSE ExtendChunk(data, start, method_id, size + increment, increment,
                              max_size, size, clen)

\* what is left of the input is not looked at: every chunk gets the base size
DetermineOptimalChunkUncapped(data, start, base_size) ==
    [size |-> base_size, method_id |-> NoCompression]

DetermineOptimalChunk(data, start, base_size) ==
    LET max_size == Min(MaxChunkSize, Len(data) - start)
    IN  IF max_size <= base_size
        THEN LET chunk == Slice(data, start, start + max_size)
                 best == TestMethods(PredictBestMethods(chunk, 2), chunk,
                                     NoCompression, Len(chunk))
             IN  [size |-> max_size, method_id |-> best.method_id]
        ELSE LET chunk == Slice(data, start, start + base_size)
                 best == TestMethods(PredictBestMethods(chunk, 3), chunk, NoMethod,
                                     base_size)
             IN  IF best.method_id # NoMethod /\ 100 * best.compressed_len < 95 * base_size
                 THEN [size |-> ExtendChunk(data, start, best.method_id,
                                   base_size + Max(MinSizeIncrement, base_size \div 4),
                                   Max(MinSizeIncrement, base_size \div 4), max_size,
                                   base_size, best.compressed_len),
                       method_id |-> best.method_id]
                 ELSE [size |-> base_size, method_id |-> NoCompression]

(***************************************************************************)
(* Decoder: one iteration of the chunk loop of _adaptive_decompress.       *)
(* Positions are 0-based.  exit is None when the loop goes on.             *)
(***************************************************************************)
\* the first i >= p with data[i:i+marker_size] = aligned, or -1
FindMarkerPos(data, aligned, p) ==
    LET hits == { i \in p..(Len(data) - Len(aligned)) :
                     Slice(data, i, i + Len(aligned)) = aligned }
    IN  IF hits = {} THEN -1 ELSE CHOOSE i \in hits : \A j \in hits : i <= j

ValidPackageType(t) == (1 <= t /\ t <= 11) \/ t = 255

\* the payload of a package of an unknown method is passed on as it is
UnknownMethodChunkRaw(payload, original_length) == payload

\* no method for the package type: bytes(original_length)
UnknownMethodChunk(payload, original_length) == Zeros(original_length)

\* the decoder drops the bytes in front of the marker instead of copying them
RawBeforeDropped(data, p, marker_pos) == << >>

\* the raw data in front of the marker that was found
RawBefore(data, p, marker_pos) == Slice(data, p, marker_pos)

DecodeIteration(data, aligned, p, out) ==
    LET marker_pos == FindMarkerPos(data, aligned, p)
    IN  IF marker_pos = -1
        THEN [pos |-> p, out |-> out \o Slice(data, p, Len(data)), exit |-> "no_marker"]
        ELSE
        LET out1 == out \o RawBefore(data, p, marker_pos)
            p1   == marker_pos + Len(aligned)
        IN  IF p1 >= Len(data)
            THEN [pos |-> p1, out |-> out1, exit |-> "missing_type"]
            ELSE
            LET package_type == data[p1 + 1]
                p2 == p1 + 1
            IN  IF package_type = END_PACKAGE_TYPE
                THEN [pos |-> p2, out |-> out1, exit |-> "end_package"]
                ELSE IF ~ValidPackageType(package_type)
                THEN [pos |-> p2, out |-> out1 \o aligned \o << package_type >>,
                      exit |-> None]
                ELSE IF p2 >= Len(data)
                THEN [pos |-> p2, out |-> out1, exit |-> "missing_original_length"]
                ELSE
                LET original_length == ReadVariableLengthInt(data, p2)
                IN  IF original_length.pos >= Len(data)
                    THEN [pos |-> original_length.pos, out |-> out1,
                          exit |-> "missing_data_length"]
                    ELSE
                    LET data_length == ReadVariableLengthInt(data, original_length.pos)
                        p3 == data_length.pos
                    IN  IF p3 + data_length.value > Len(data)
                        THEN [pos |-> p3, out |-> out1 \o Slice(data, p3, Len(data)),
                              exit |-> "incomplete_data"]
                        ELSE
                        LET payload == Slice(data, p3, p3 + data_length.value)
                            chunk == IF package_type \in RegisteredIds
                                     THEN CodecDecompress(package_type, payload,
                                                          original_length.value)
                                     ELSE UnknownMethodChunk(payload,
                                                             original_length.value)
                        IN  [pos |-> p3 + data_length.value, out |-> out1 \o chunk,
                             exit |-> None]

\* the output of the loop is returned as it is
FitOriginalSizeSkipped(out, original_size) == out

\* the length check after the loop: pad with zeros or truncate to original_size
FitOriginalSize(out, original_size) == FitLength(out, original_size)

(***************************************************************************)
(* The state machine: one compress call on a fresh compressor, the archive *)
(* on disk (possibly damaged afterwards), one decompress call.             *)
(***************************************************************************)
\* self.chunk_stats as _adaptive_compress sets it up
InitialStats(original_size) ==
    [ total_chunks |-> 0, compressed_chunks |-> 0, raw_chunks |-> 0,
      method_usage |-> [id \in RegisteredIds |-> 0],
      bytes_saved |-> 0, original_size |-> original_size,
      compressed_size_without_overhead |-> 0, overhead_bytes |-> 0,
      header_size |-> 0 ]

\* the statistics of the previous compress call are kept and added to
ResetStatsKept(old, original_size) == [old EXCEPT !.original_size = original_size]

\* _adaptive_compress replaces self.chunk_stats by a new dictionary
ResetStats(old, original_size) == InitialStats(original_size)

\* before the first compress call the compressor holds no statistics
NoStats == InitialStats(0)

\* a stored chunk is counted nowhere but in total_chunks
UpdateStatsRawForgotten(st, stats) ==
    IF stats.compressed
    THEN [st EXCEPT !.total_chunks = @ + 1,
                    !.compressed_chunks = @ + 1,
                    !.method_usage[stats.method_id] = @ + 1,
                    !.compressed_size_without_overhead = @ + stats.compressed_size,
                    !.overhead_bytes = @ + stats.overhead,
                    !.bytes_saved = @ + stats.bytes_saved]
    ELSE [st EXCEPT !.total_chunks = @ + 1]

\* a stored chunk is counted under its method id 255 as well
UpdateStatsRawAsMethod(st, stats) ==
    IF stats.compressed
    THEN [st EXCEPT !.total_chunks = @ + 1,
                    !.compressed_chunks = @ + 1,
                    !.method_usage[stats.method_id] = @ + 1,
                    !.compressed_size_without_overhead = @ + stats.compressed_size,
                    !.overhead_bytes = @ + stats.overhead,
                    !.bytes_saved = @ + stats.bytes_saved]
    ELSE [st EXCEPT !.total_chunks = @ + 1,
                    !.method_usage[NoCompression] = @ + 1]

\* an update that meets earlier ones overwrites the chunk counter with a
\* stale value
UpdateStatsLostUpdate(st, stats) ==
    IF stats.compressed
    THEN [st EXCEPT !.total_chunks = 1,
                    !.compressed_chunks = @ + 1,
                    !.method_usage[stats.method_id] = @ + 1,
                    !.compressed_size_without_overhead = @ + stats.compressed_size,
                    !.overhead_bytes = @ + stats.overhead,
                    !.bytes_saved = 0 + stats.bytes_saved]
    ELSE [st EXCEPT !.total_chunks = 1,
                    !.raw_chunks = @ + 1]

\* the statistics update that follows every _process_chunk call
UpdateStats(st, stats) ==
    IF stats.compressed
    THEN [st EXCEPT !.total_chunks = @ + 1,
                    !.compressed_chunks = @ + 1,
                    !.method_usage[stats.method_id] = @ + 1,
                    !.compressed_size_without_overhead = @ + stats.compressed_size,
                    !.overhead_bytes = @ + stats.overhead,
                    !.bytes_saved = @ + stats.bytes_saved]
    ELSE [st EXCEPT !.total_chunks = @ + 1,
                    !.raw_chunks = @ + 1]

\* the package is put behind the results that completed before it
StoreResultAppended(res, chunk_index, package_data) ==
    LET free == CHOOSE k \in 1..Len(res) :
                    ~res[k].ready /\ \A j \in 1..(k - 1) : res[j].ready
    IN  [res EXCEPT ![free] = [ready |-> TRUE, data |-> package_data]]

\* results[chunk_index] = package_data (results.append in sequential mode,
\* where chunk_index is the next index)
StoreResult(res, chunk_index, package_data) ==
    [res EXCEPT ![chunk_index] = [ready |-> TRUE, data |-> package_data]]

\* the planning loop skips a byte behind every chunk
NextPositionSkip(p, chunk_size) == p + chunk_size + 1

\* position += chunk_size
NextPosition(p, chunk_size) == p + chunk_size

\* the planning loop of _adaptive_compress from a position to the end
RECURSIVE PlanFrom(_, _, _)
PlanFrom(data, p, base_size) ==
    IF p >= Len(data) THEN << >>
    ELSE LET plan == DetermineOptimalChunk(data, p, base_size)
         IN  << [position |-> p, size |-> plan.size, method_id |-> plan.method_id] >>
                \o PlanFrom(data, NextPosition(p, plan.size), base_size)

RECURSIVE SeqsUpTo(_, _)
SeqsUpTo(S, n) ==
    IF n = 0 THEN { << >> }
    ELSE LET shorter == SeqsUpTo(S, n - 1)
         IN  shorter \cup { Append(q, b) : q \in { r \in shorter : Len(r) = n - 1 }, b \in S }

Inputs == SeqsUpTo(InputBytes, MaxLen)

NoFile == [exists |-> FALSE, data |-> << >>]

NotReady == [ready |-> FALSE, data |-> << >>]

NoHeaderInfo ==
    [ format_version |-> 0, header_size |-> 0, marker_length |-> 0,
      marker_bytes |-> << >>, checksum_type |-> 0, checksum |-> << >>,
      original_size |-> 0, compressed_size |-> 0 ]

\* decompress has not returned
NoResult == [returned |-> FALSE]

\* no direct call: the run is a compress call followed by a decompress call
NoCall == [op |-> "none"]

\* bytes the payloads of direct codec calls are drawn from
PayloadBytes == {0, 1, 255}

\* method.decompress(payload, n) on a registered codec
DecompressCalls ==
    { [op |-> "decompress", id |-> id, payload |-> payload, n |-> n, done |-> FALSE] :
        id \in RegisteredIds, payload \in SeqsUpTo(PayloadBytes, MaxPayloadLen),
        n \in 0..MaxExpected }

\* markers as _find_marker returns them: 1, 3, 9 and 32 bits
HeaderMarkers ==
    { [bytes |-> << 0 >>, length |-> 1], [bytes |-> << 128 >>, length |-> 1],
      [bytes |-> << 32 >>, length |-> 3], [bytes |-> << 1, 128 >>, length |-> 9],
      [bytes |-> FallbackMarker, length |-> FallbackLength] }

HeaderSizes == {0, 1, 255, 256, 65536}

\* _create_header, _update_header_compressed_size and _parse_header in a row
HeaderCalls ==
    { [op |-> "header", marker |-> m, checksum |-> c, original_size |-> o,
       compressed_size |-> z, done |-> FALSE] :
        m \in HeaderMarkers, c \in {MD5(<< >>), MD5(<< 127, 0 >>)},
        o \in HeaderSizes, z \in HeaderSizes }

\* type ids of the codecs that need a library outside the standard library
ZStandard == 8
LZ4 == 9
Brotli == 10
LZHAM == 11

\* the environment of the import: whether compression_fix and
\* advanced_compression can be imported, which libraries are installed, and
\* whether brotli_lzham_compression.py lies in the working directory
Environments ==
    [ compatible : BOOLEAN, advanced : BOOLEAN, zstd : BOOLEAN, lz4 : BOOLEAN,
      brotli : BOOLEAN, lzham : BOOLEAN, module_found : BOOLEAN ]

\* compression_fix.get_compatible_methods: type ids of the list it returns
GetCompatibleMethods(env) ==
    << RLE, Dictionary, Huffman, Delta, NoCompression >>
       \o (IF env.advanced
           THEN << DEFLATE, BZIP2, LZMA >>
                  \o (IF env.zstd THEN << ZStandard >> ELSE << >>)
                  \o (IF env.lz4 THEN << LZ4 >> ELSE << >>)
                  \o (IF env.brotli THEN << Brotli >> ELSE << >>)
                  \o (IF env.lzham THEN << LZHAM >> ELSE << >>)
           ELSE << >>)

\* _initialize_compression_methods: type ids of self.compression_methods
InitializeCompressionMethods(env) ==
    LET basic == << RLE, Dictionary, Huffman, Delta >>
        compatible == basic \o (IF env.compatible THEN GetCompatibleMethods(env)
                                ELSE << >>)
        existing == {compatible[i] : i \in 1..Len(compatible)}
        advanced ==
            compatible
               \o (IF env.advanced
                   THEN << DEFLATE, BZIP2, LZMA >>
                          \o (IF env.zstd /\ ZStandard \notin existing
                              THEN << ZStandard >> ELSE << >>)
                          \o (IF env.lz4 THEN << LZ4 >> ELSE << >>)
                   ELSE << >>)
        has_brotli == ~env.compatible /\ env.module_found /\ env.brotli
        has_lzham == ~env.compatible /\ env.module_found /\ env.lzham
        with_brotli ==
            advanced \o (IF Brotli \notin {advanced[i] : i \in 1..Len(advanced)}
                            /\ has_brotli
                         THEN << Brotli >> ELSE << >>)
    IN  with_brotli \o (IF has_lzham THEN << LZHAM >> ELSE << >>)
                    \o << NoCompression >>

\* construction of a compressor in one environment
RegistryCalls == { [op |-> "registry", env |-> env, done |-> FALSE] : env \in Environments }

\* pattern repeated to n bytes
Repeat(pattern, n) == [i \in 1..n |-> pattern[((i - 1) % Len(pattern)) + 1]]

\* inputs long enough for the extension loop of _determine_optimal_chunk: with
\* a base size of 4 the extension sizes are 1028, 2052 and 3076
PlanInputs ==
    { Repeat(<< 0 >>, 3 * MinSizeIncrement + 4),
      Repeat(<< 0 >>, MinSizeIncrement + 4)
         \o Repeat(Repeat(<< 0 >>, 32) \o Repeat(<< 127 >>, 32), MinSizeIncrement),
      Repeat(<< 0 >>, 2 * MinSizeIncrement + 4)
         \o Repeat(Repeat(<< 0 >>, 32) \o Repeat(<< 127 >>, 32), MinSizeIncrement),
      Repeat(<< 0 >>, MinSizeIncrement + 500),
      << 0, 0, 0, 0 >> \o Repeat(<< 127, 0 >>, MinSizeIncrement),
      << 0, 127, 0, 127 >> \o Repeat(<< 0 >>, MinSizeIncrement),
      Repeat(<< 0, 127 >>, MaxChunkSize + 4) }

\* chunks around the lengths at which a variable-length integer grows to two
\* and to three bytes: runs that RLE shrinks to a few bytes, single bytes
\* that RLE doubles, and 66 single bytes followed by a run, which RLE turns
\* into 134 bytes
PackageChunks ==
    { Repeat(<< 0 >>, n) : n \in {127, 128, 16383, 16384} }
       \cup { Repeat(<< 0, 127 >>, n) : n \in {127, 128} }
       \cup { Repeat(<< 0, 127 >>, 66) \o Repeat(<< 0 >>, n) : n \in {73, 74, 75, 134} }

\* _process_chunk on one chunk, with the aligned marker of the compressor
PackageCalls ==
    { [op |-> "package", aligned |-> a, data |-> d, method_id |-> id, done |-> FALSE] :
        a \in {<< 128 >>, FallbackMarker}, d \in PackageChunks,
        id \in {RLE, Delta, NoCompression} }

\* values below 2^28: the small ones and those around 2^7, 2^14, 2^21, 2^28
VarintValues ==
    (0..130) \cup (16382..16385) \cup (2097150..2097153)
       \cup {2 ^ 28 - 2, 2 ^ 28 - 1}

\* _encode_variable_length(buffer, value) on a buffer that holds prefix; the
\* bytes in suffix are appended afterwards, and _read_variable_length_int
\* reads at the place where the value was appended
VarintCalls ==
    { [op |-> "varint", value |-> v, prefix |-> a, suffix |-> z, done |-> FALSE] :
        v \in VarintValues, a \in {<< >>, << 255 >>}, z \in {<< >>, << 255, 1 >>} }

\* the initial_chunk_size of the compressor whose planner is called
PlanBaseSizes == {1, 4}

\* _determine_optimal_chunk(data, position)
PlanCalls ==
    { [op |-> "plan", data |-> d, position |-> q, done |-> FALSE] :
        d \in PlanInputs, q \in {0, 4} }

Init ==
    /\ \/ /\ pc = "start"
          /\ file_data \in Inputs
          /\ \E o \in Options :
                /\ initial_chunk_size = o.initial_chunk_size
                /\ sample_size = o.sample_size
                /\ use_multithreading = o.use_multithreading
          /\ call = NoCall
       \/ /\ pc = "call"
          /\ file_data = << >>
          /\ call \in DecompressCalls \cup HeaderCalls \cup PlanCalls \cup RegistryCalls
                       \cup PackageCalls \cup VarintCalls
          /\ initial_chunk_size \in (IF call.op = "plan" THEN PlanBaseSizes ELSE {4096})
          /\ sample_size = 10000
          /\ use_multithreading = FALSE
    /\ marker_bytes = << >>
    /\ marker_length = 0
    /\ marker_bytes_aligned = << >>
    /\ header = << >>
    /\ position = 0
    /\ chunks = << >>
    /\ results = << >>
    /\ chunk_stats = NoStats
    /\ raised = {}
    /\ archive = << >>
    /\ truncated = FALSE
    /\ corrupted = FALSE
    /\ header_info = NoHeaderInfo
    /\ data_to_decompress = << >>
    /\ pos = 0
    /\ decompressed = << >>
    /\ loop_exit = None
    /\ output_file = NoFile
    /\ outcome = "none"
    /\ decompress_stats = NoResult
    /\ calls_made = 0

decodeVars == << header_info, data_to_decompress, pos, decompressed, loop_exit,
                 output_file, outcome, decompress_stats >>

optionVars == << file_data, initial_chunk_size, sample_size, use_multithreading >>

markerVars == << marker_bytes, marker_length, marker_bytes_aligned >>

\* compress, up to the planning loop: checksum, marker, header
StartCompress ==
    /\ pc = "start"
    /\ LET marker == FindMarker(file_data, sample_size)
       IN  /\ marker_bytes' = marker.bytes
           /\ marker_length' = marker.length
           /\ marker_bytes_aligned' = AlignedMarker(marker.bytes, marker.length)
           /\ header' = CreateHeader(marker.bytes, marker.length, MD5(file_data),
                                     Len(file_data))
    /\ position' = 0
    /\ chunks' = << >>
    /\ pc' = IF Len(file_data) = 0 THEN "encoding" ELSE "planning"
    /\ chunk_stats' = ResetStats(chunk_stats, Len(file_data))
    /\ raised' = {}
    /\ UNCHANGED << optionVars, call, calls_made, results, archive, truncated, corrupted, decodeVars >>

\* one iteration of the planning loop of _adaptive_compress
PlanChunk ==
    /\ pc = "planning"
    /\ position < Len(file_data)
    /\ LET plan == DetermineOptimalChunk(file_data, position, initial_chunk_size)
       IN  /\ chunks' = Append(chunks, [position |-> position, size |-> plan.size,
                                        method_id |-> plan.method_id])
           /\ position' = NextPosition(position, plan.size)
           /\ results' = [i \in 1..(Len(chunks) + 1) |-> NotReady]
           /\ pc' = IF position' < Len(file_data) THEN "planning" ELSE "encoding"
    /\ UNCHANGED << optionVars, call, calls_made, raised, markerVars, header, chunk_stats, archive, truncated,
                    corrupted, decodeVars >>

Parallel == use_multithreading /\ Len(chunks) > 1

\* one chunk encoded: the next one in sequential mode, any one whose worker
\* completes in parallel mode (results[chunk_index] = package_data).  When
\* the chunk is given to a codec, the codec's compress may raise.
EncodeChunk(i) ==
    /\ pc = "encoding"
    /\ i \in 1..Len(chunks)
    /\ ~results[i].ready
    /\ Parallel \/ \A j \in 1..(i - 1) : results[j].ready
    /\ LET c == chunks[i]
           chunk_data == Slice(file_data, c.position, c.position + c.size)
           calls_codec == c.method_id \in RegisteredIds /\ c.method_id # NoCompression
       IN  \E raises \in (IF calls_codec THEN BOOLEAN ELSE {FALSE}) :
              LET stats == IF raises THEN ProcessChunkRaised(chunk_data)
                           ELSE ProcessChunk(marker_bytes_aligned, chunk_data, c.method_id)
              IN  /\ results' = StoreResult(results, i, stats.data)
                  /\ chunk_stats' = UpdateStats(chunk_stats, stats)
                  /\ raised' = IF raises THEN raised \cup {i} ELSE raised
    /\ UNCHANGED << optionVars, call, calls_made, markerVars, pc, header, position, chunks, archive,
                    truncated, corrupted, decodeVars >>

RECURSIVE Concat(_)
Concat(parts) == IF parts = << >> THEN << >> ELSE Head(parts) \o Concat(Tail(parts))

\* the rest of _adaptive_compress and of compress: combine, end package,
\* patch the header, write the file
FinishCompress ==
    /\ pc = "encoding"
    /\ \A i \in 1..Len(chunks) : results[i].ready
    /\ LET compressed_data == Concat([i \in 1..Len(results) |-> results[i].data])
                                 \o CreateEndPackage(marker_bytes_aligned)
       IN  /\ header' = UpdateHeaderCompressedSize(header, Len(compressed_data))
           /\ chunk_stats' =
                 [chunk_stats EXCEPT
                     !.overhead_bytes = @ + Len(CreateEndPackage(marker_bytes_aligned))
                                          + Len(header),
                     !.header_size = Len(header)]
           /\ archive' = header' \o compressed_data
    /\ pc' = "compressed"
    /\ UNCHANGED << optionVars, call, calls_made, raised, markerVars, position, chunks, results, truncated,
                    corrupted, decodeVars >>

(***************************************************************************)
(* Damage to the archive between compress and decompress.                  *)
(***************************************************************************)
\* the archive loses its last 4 bytes
TruncateArchive ==
    /\ pc = "compressed"
    /\ ~truncated /\ ~corrupted
    /\ Len(archive) >= 4
    /\ archive' = SubSeq(archive, 1, Len(archive) - 4)
    /\ truncated' = TRUE
    /\ UNCHANGED << optionVars, call, calls_made, raised, markerVars, pc, header, position, chunks, results,
                    chunk_stats, corrupted, decodeVars >>

\* indices (1-based) of the archive that may be damaged: the first magic byte,
\* the version byte, the low byte of the header size and every byte of the
\* chunk stream
CorruptIndices == {1, 5, 6} \cup ((Len(header) + 1)..Len(archive))

\* values a damaged byte takes: a version that is too new, a header size
\* beyond the end of the archive; in the chunk stream 0 (end package type),
\* 1 (a registered codec), 8 (a codec id that is not registered) and 12 (no
\* codec id at all)
CorruptValues(i) ==
    IF i = 5 THEN {FORMAT_VERSION + 1}
    ELSE IF i = 6 THEN {64}
    ELSE IF i = 1 THEN {0}
    ELSE {0, 1, 8, 12}

\* one byte of the archive is overwritten
CorruptArchive ==
    /\ pc = "compressed"
    /\ ~truncated /\ ~corrupted
    /\ \E i \in CorruptIndices :
          \E v \in CorruptValues(i) :
             /\ archive[i] # v
             /\ archive' = [archive EXCEPT ![i] = v]
    /\ corrupted' = TRUE
    /\ UNCHANGED << optionVars, call, calls_made, raised, markerVars, pc, header, position, chunks, results,
                    chunk_stats, truncated, decodeVars >>

(***************************************************************************)
(* decompress.                                                             *)
(***************************************************************************)
\* decompress up to the chunk loop: read the file, parse the header, set up
\* the marker; a header that cannot be parsed raises ValueError
StartDecompress ==
    /\ pc \in {"compressed", "other_compressed"}
    /\ IF HeaderError(archive) # None
       THEN /\ outcome' = HeaderError(archive)
            /\ pc' = "done"
            /\ UNCHANGED << markerVars, header_info, data_to_decompress, pos,
                            decompressed, loop_exit >>
       ELSE LET info == ParseHeader(archive)
                stream == Slice(archive, info.header_size, Len(archive))
            IN  /\ header_info' = info
                /\ marker_bytes' = info.marker_bytes
                /\ marker_length' = info.marker_length
                /\ marker_bytes_aligned' = AlignedMarker(info.marker_bytes,
                                                         info.marker_length)
                /\ data_to_decompress' = stream
                /\ pos' = 0
                /\ decompressed' = << >>
                /\ loop_exit' = IF Len(stream) = 0 THEN "exhausted" ELSE None
                /\ pc' = IF Len(stream) = 0 THEN "loop_done" ELSE "decoding"
                /\ outcome' = outcome
    /\ UNCHANGED << optionVars, call, calls_made, raised, header, position, chunks, results, chunk_stats,
                    archive, truncated, corrupted, output_file, decompress_stats >>

\* one iteration of the chunk loop, with the loop test that follows it
DecodeStep ==
    /\ pc = "decoding"
    /\ LET it == DecodeIteration(data_to_decompress, marker_bytes_aligned, pos,
                                 decompressed)
           ended == it.exit = None /\ it.pos >= Len(data_to_decompress)
       IN  /\ pos' = it.pos
           /\ decompressed' = it.out
           /\ loop_exit' = IF ended THEN "exhausted" ELSE it.exit
           /\ pc' = IF it.exit # None \/ ended THEN "loop_done" ELSE "decoding"
    /\ UNCHANGED << optionVars, call, calls_made, raised, markerVars, header, position, chunks, results,
                    chunk_stats, archive, truncated, corrupted, header_info,
                    data_to_decompress, output_file, outcome, decompress_stats >>

\* the dictionary _calculate_decompression_stats returns; elapsed_time and
\* throughput_mb_per_sec depend on the clock and are kept as keys only
DecompressionStats(compressed_size, decompressed_size) ==
    [ returned |-> TRUE,
      compressed_size |-> compressed_size,
      decompressed_size |-> decompressed_size,
      elapsed_time |-> "float",
      throughput_mb_per_sec |-> "float" ]

\* the comparison looks at the digest lengths only
VerifyChecksumLengthOnly(data, expected) == Len(MD5(data)) = Len(expected)

\* the checksum comparison of decompress
VerifyChecksum(data, expected) == MD5(data) = expected

\* the rest of _adaptive_decompress and of decompress: fit the output to the
\* original size, write the output file, verify the checksum
FinishDecompress ==
    /\ pc = "loop_done"
    /\ LET decompressed_data == FitOriginalSize(decompressed, header_info.original_size)
       IN  /\ decompressed' = decompressed_data
           /\ output_file' = [exists |-> TRUE, data |-> decompressed_data]
           /\ outcome' = IF VerifyChecksum(decompressed_data, header_info.checksum)
                         THEN "ok" ELSE "checksum_mismatch"
           /\ decompress_stats' =
                 IF VerifyChecksum(decompressed_data, header_info.checksum)
                 THEN DecompressionStats(Len(archive), Len(decompressed_data))
                 ELSE decompress_stats
    /\ pc' = "done"
    /\ UNCHANGED << optionVars, call, calls_made, raised, markerVars, header, position, chunks, results,
                    chunk_stats, archive, truncated, corrupted, header_info,
                    data_to_decompress, pos, loop_exit >>

\* tuple of the variables of the compress / decompress run
runVars == << optionVars, calls_made, markerVars, header, position, chunks, results,
              chunk_stats, raised, archive, truncated, corrupted, decodeVars >>

\* a direct call of decompress on a registered codec
CallDecompress ==
    /\ pc = "call"
    /\ call.op = "decompress"
    /\ call' = [op |-> "decompress", id |-> call.id, payload |-> call.payload,
                n |-> call.n, done |-> TRUE,
                result |-> CodecDecompress(call.id, call.payload, call.n)]
    /\ pc' = "called"
    /\ UNCHANGED runVars

\* a header is built, patched and parsed
CallHeader ==
    /\ pc = "call"
    /\ call.op = "header"
    /\ LET built == UpdateHeaderCompressedSize(
                        CreateHeader(call.marker.bytes, call.marker.length,
                                     call.checksum, call.original_size),
                        call.compressed_size)
       IN  call' = [op |-> "header", marker |-> call.marker, checksum |-> call.checksum,
                    original_size |-> call.original_size,
                    compressed_size |-> call.compressed_size, done |-> TRUE,
                    built |-> built, error |-> HeaderError(built),
                    result |-> ParseHeader(built)]
    /\ pc' = "called"
    /\ UNCHANGED runVars

\* inputs of the compress calls that follow the first one on an instance
ReuseInputs == { << >>, << 127, 0 >>, << 0, 0, 0, 0, 0, 0, 0, 1 >> }

\* the caller starts another compress on the same instance, with another
\* input and other files: the attributes of the instance stay as the
\* previous calls left them (explored behind the calls on undamaged archives)
NextCall ==
    /\ pc \in {"compressed", "done"}
    /\ ~truncated /\ ~corrupted
    /\ calls_made < MaxReuse
    /\ calls_made' = calls_made + 1
    /\ file_data' \in ReuseInputs
    /\ pc' = "start"
    /\ header' = << >>
    /\ position' = 0
    /\ chunks' = << >>
    /\ results' = << >>
    /\ raised' = {}
    /\ archive' = << >>
    /\ truncated' = FALSE
    /\ corrupted' = FALSE
    /\ header_info' = NoHeaderInfo
    /\ data_to_decompress' = << >>
    /\ pos' = 0
    /\ decompressed' = << >>
    /\ loop_exit' = None
    /\ output_file' = NoFile
    /\ outcome' = "none"
    /\ decompress_stats' = NoResult
    /\ UNCHANGED << initial_chunk_size, sample_size, use_multithreading, call,
                    markerVars, chunk_stats >>

\* self.chunk_stats after a complete compress call in which no codec raises
RECURSIVE EncodeAll(_, _, _, _)
EncodeAll(data, plan, aligned, st) ==
    IF plan = << >> THEN st
    ELSE LET c == Head(plan)
             chunk_data == Slice(data, c.position, c.position + c.size)
         IN  EncodeAll(data, Tail(plan), aligned,
                       UpdateStats(st, ProcessChunk(aligned, chunk_data, c.method_id)))

\* between compress and decompress of one file the caller compresses another
\* input into another file with the same instance: the instance is left with
\* the marker and the statistics of that input
CompressOther ==
    /\ pc = "compressed"
    /\ ~truncated /\ ~corrupted
    /\ calls_made < MaxReuse
    /\ calls_made' = calls_made + 1
    /\ \E other \in ReuseInputs :
          LET marker == FindMarker(other, sample_size)
              aligned == AlignedMarker(marker.bytes, marker.length)
              other_header == CreateHeader(marker.bytes, marker.length, MD5(other),
                                           Len(other))
              st == EncodeAll(other, PlanFrom(other, 0, initial_chunk_size), aligned,
                              ResetStats(chunk_stats, Len(other)))
          IN  /\ marker_bytes' = marker.bytes
              /\ marker_length' = marker.length
              /\ marker_bytes_aligned' = aligned
              /\ chunk_stats' =
                    [st EXCEPT !.overhead_bytes = @ + Len(CreateEndPackage(aligned))
                                                    + Len(other_header),
                               !.header_size = Len(other_header)]
    /\ pc' = "other_compressed"
    /\ UNCHANGED << optionVars, call, raised, header, position, chunks, results, archive,
                    truncated, corrupted, decodeVars >>

CallRegistry ==
    /\ pc = "call"
    /\ call.op = "registry"
    /\ call' = [op |-> "registry", env |-> call.env, done |-> TRUE,
                result |-> InitializeCompressionMethods(call.env)]
    /\ pc' = "called"
    /\ UNCHANGED runVars

\* a value is appended to a buffer and read back
CallVarint ==
    /\ pc = "call"
    /\ call.op = "varint"
    /\ LET written == EncodeVariableLength(call.value)
           buffer == call.prefix \o written \o call.suffix
       IN  call' = [op |-> "varint", value |-> call.value, prefix |-> call.prefix,
                    suffix |-> call.suffix, done |-> TRUE, written |-> written,
                    result |-> ReadVariableLengthInt(buffer, Len(call.prefix))]
    /\ pc' = "called"
    /\ UNCHANGED runVars

\* one call of _process_chunk
CallPackage ==
    /\ pc = "call"
    /\ call.op = "package"
    /\ call' = [op |-> "package", aligned |-> call.aligned, data |-> call.data,
                method_id |-> call.method_id, done |-> TRUE,
                result |-> ProcessChunk(call.aligned, call.data, call.method_id)]
    /\ pc' = "called"
    /\ UNCHANGED runVars

\* one call of _determine_optimal_chunk
CallPlan ==
    /\ pc = "call"
    /\ call.op = "plan"
    /\ call' = [op |-> "plan", data |-> call.data, position |-> call.position,
                done |-> TRUE,
                result |-> DetermineOptimalChunk(call.data, call.position,
                                                 initial_chunk_size)]
    /\ pc' = "called"
    /\ UNCHANGED runVars

Next ==
    \/ CallDecompress
    \/ CallHeader
    \/ CallPlan
    \/ CallRegistry
    \/ CallPackage
    \/ CallVarint
    \/ StartCompress
    \/ PlanChunk
    \/ \E i \in 1..MaxLen + 1 : EncodeChunk(i)
    \/ FinishCompress
    \/ TruncateArchive
    \/ CorruptArchive
    \/ StartDecompress
    \/ DecodeStep
    \/ FinishDecompress
    \/ NextCall
    \/ CompressOther

Spec == Init /\ [][Next]_vars


(***************************************************************************)
(* Properties.                                                             *)
(***************************************************************************)
\* the decompress call ran on the archive exactly as compress wrote it
Undamaged == ~truncated /\ ~corrupted

\* the chunk loop of decompress ran (the header was accepted)
LoopRan == loop_exit # None

\* the bytes of planned chunk i
ChunkData(i) == Slice(file_data, chunks[i].position, chunks[i].position + chunks[i].size)

\* what _process_chunk returned for the i-th planned chunk
Processed(i) ==
    IF i \in raised THEN ProcessChunkRaised(ChunkData(i))
    ELSE ProcessChunk(marker_bytes_aligned, ChunkData(i), chunks[i].method_id)

\* the aligned marker sits at 0-based offset p of data
MarkerAt(data, aligned, p) == Slice(data, p, p + Len(aligned)) = aligned

\* the last n elements of s
Suffix(s, n) == SubSeq(s, Len(s) - n + 1, Len(s))

RECURSIVE BigEndian(_)
BigEndian(bytes) ==
    IF bytes = << >> THEN 0
    ELSE BigEndian(SubSeq(bytes, 1, Len(bytes) - 1)) * 256 + bytes[Len(bytes)]

\* C1: decompressing the archive that compress wrote succeeds and writes
\* exactly the input, for every input and every option setting
C1_RoundTrip ==
    (pc = "done" /\ Undamaged) => (outcome = "ok" /\ output_file.data = file_data)

\* C2: decompress reports success only when the digest of the reassembled
\* output equals the header's checksum, and reports a checksum mismatch for
\* every archive whose reassembled output has a different digest
C2_ChecksumDecides ==
    (pc = "done" /\ LoopRan) =>
        /\ outcome \in {"ok", "checksum_mismatch"}
        /\ outcome = "ok" <=> MD5(decompressed) = header_info.checksum

C2_Witness ==
    /\ pc = "done" /\ LoopRan
    /\ outcome = "checksum_mismatch"
    /\ MD5(decompressed) # header_info.checksum
    /\ Len(decompressed) = Len(file_data)

\* C3: when decompress fails (invalid header, unsupported version, checksum
\* mismatch) the output file has not been created
C3_NoOutputOnError ==
    outcome \notin {"none", "ok"} => ~output_file.exists

\* C4: decompressing an archive that lost its last 4 bytes never succeeds
C4_TruncationRejected ==
    (pc = "done" /\ truncated) => outcome # "ok"

\* C5: the marker's pattern occurs nowhere in the bit stream of the whole
\* input, so its aligned bytes are not a substring of the input, with or
\* without sampling
C5_MarkerAbsent ==
    (pc \in {"planning", "encoding"} /\ marker_length <= MaxMarkerBits) =>
        /\ BitsValue(MarkerPattern(marker_bytes, marker_length))
              \notin FoundPatterns(Bits(file_data), marker_length)
        /\ \A p \in 0..Len(file_data) :
              ~MarkerAt(file_data, marker_bytes_aligned, p)

C8_FullTerminator ==
    (pc = "compressed" /\ Undamaged) =>
        /\ Len(archive) >= Len(header) + Len(marker_bytes_aligned) + 12
        /\ Suffix(archive, Len(marker_bytes_aligned) + 12)
              = marker_bytes_aligned \o Zeros(12)

\* C8 amended: the last bytes of every archive are the marker's aligned bytes
\* and the single byte 0; the chunk stream holds nothing else besides the
\* encoded chunks, so no k_value or length field follows
C8_EndPackage ==
    (pc = "compressed" /\ Undamaged) =>
        LET m == Len(marker_bytes_aligned)
        IN  /\ Suffix(archive, m + 1) = marker_bytes_aligned \o << 0 >>
            /\ Len(archive) = Len(header) + Len(Concat([i \in 1..Len(results) |->
                                                          results[i].data])) + m + 1

C8_Witness ==
    /\ pc = "compressed" /\ Undamaged
    /\ Len(chunks) > 1

\* C9 as stated: when the bytes at the read offset are not the marker's
\* aligned bytes the decoder fails; it never skips them or copies them to the
\* output
C9_MarkerMismatchFatal ==
    [][ (pc = "decoding"
           /\ ~MarkerAt(data_to_decompress, marker_bytes_aligned, pos))
        => (pc' = "done" /\ outcome' \notin {"none", "ok"}
              /\ decompressed' = decompressed) ]_vars

\* C9 amended: when the bytes at the read offset are not the marker's aligned
\* bytes the decoder does not fail: it copies the bytes up to the next
\* occurrence of the marker (all the remaining bytes when there is none) to
\* the output and goes on
C9_MismatchCopied ==
    [][ (pc = "decoding"
           /\ ~MarkerAt(data_to_decompress, marker_bytes_aligned, pos))
        => LET starts == { p \in pos..Len(data_to_decompress) :
                             /\ p + Len(marker_bytes_aligned) <= Len(data_to_decompress)
                             /\ MarkerAt(data_to_decompress, marker_bytes_aligned, p) }
               next == IF starts = {} THEN Len(data_to_decompress)
                       ELSE CHOOSE p \in starts : \A q \in starts : p <= q
               copied == decompressed \o Slice(data_to_decompress, pos, next)
           IN  /\ outcome' = outcome
               /\ pc' \in {"decoding", "loop_done"}
               /\ Len(decompressed') >= Len(copied)
               /\ SubSeq(decompressed', 1, Len(copied)) = copied
               /\ starts # {} => pos' >= next + Len(marker_bytes_aligned) ]_vars

C9_Witness ==
    /\ pc \in {"decoding", "loop_done"}
    /\ Undamaged
    /\ Len(data_to_decompress) > 0
    /\ ~MarkerAt(data_to_decompress, marker_bytes_aligned, 0)
    /\ pos > 0
    /\ Len(decompressed) > 0

\* C10: decompress succeeds only after the chunk loop has read a terminator;
\* the loop never ends by running out of input, by finding no marker or on an
\* incomplete frame
C10_EndsOnTerminator ==
    outcome = "ok" => loop_exit = "end_package"

\* C11: parsing the header that _create_header built and
\* _update_header_compressed_size patched returns the marker, checksum,
\* original size and compressed size that were written and a header_size equal
\* to the header's length; in every archive written by compress the
\* compressed-size field is the number of bytes that follow the header
C11_HeaderFraming ==
    /\ (pc = "called" /\ call.op = "header") =>
          /\ call.error = None
          /\ call.result.marker_bytes = call.marker.bytes
          /\ call.result.marker_length = call.marker.length
          /\ call.result.checksum = call.checksum
          /\ call.result.original_size = call.original_size
          /\ call.result.compressed_size = call.compressed_size
          /\ call.result.header_size = Len(call.built)
    /\ (pc = "compressed" /\ Undamaged) =>
          /\ HeaderError(archive) = None
          /\ LET info == ParseHeader(archive)
             IN  /\ info.header_size = Len(header)
                 /\ info.compressed_size = Len(archive) - info.header_size
                 /\ info.original_size = Len(file_data)
                 /\ info.checksum = MD5(file_data)
                 /\ info.marker_bytes = marker_bytes
                 /\ info.marker_length = marker_length

C11_Witness ==
    /\ pc = "called" /\ call.op = "header"
    /\ call.marker.length = 9
    /\ call.original_size = 65536
    /\ call.compressed_size = 256
    /\ call.result.compressed_size = 256

\* C12: decompress of an archive that is shorter than the header size its
\* header-size field declares fails with a header error and never gets to the
\* chunk loop and what follows it
C12_TruncatedHeaderFatal ==
    (/\ pc \in {"decoding", "loop_done", "done"}
     /\ Len(archive) >= 9
     /\ Len(archive) < UnpackLE(Slice(archive, 5, 9)))
    => (pc = "done" /\ ~LoopRan /\ outcome \notin {"none", "ok", "checksum_mismatch"})

\* the decoder stands on a marker that is followed by a type byte
AtPackage ==
    /\ pc = "decoding"
    /\ MarkerAt(data_to_decompress, marker_bytes_aligned, pos)
    /\ pos + Len(marker_bytes_aligned) < Len(data_to_decompress)

\* the type byte behind the marker at the read offset
TypeAtPos == data_to_decompress[pos + Len(marker_bytes_aligned) + 1]

\* the frame behind the type byte: its two lengths and where its payload ends
FrameAtPos ==
    LET p2 == pos + Len(marker_bytes_aligned) + 1
        original_length == ReadVariableLengthInt(data_to_decompress, p2)
        data_length == ReadVariableLengthInt(data_to_decompress, original_length.pos)
    IN  [ original_length |-> original_length.value,
          end |-> data_length.pos + data_length.value,
          complete |-> /\ p2 < Len(data_to_decompress)
                       /\ original_length.pos < Len(data_to_decompress)
                       /\ data_length.pos + data_length.value
                              <= Len(data_to_decompress) ]

C14_DecompressContract ==
    (pc = "called" /\ call.op = "decompress")
        => /\ Len(call.result) = call.n
           /\ call.id \in {DEFLATE, BZIP2, LZMA} => call.result = Zeros(call.n)

\* the package of the i-th planned chunk, computed from the plan alone
PlannedPackage(i) ==
    Processed(i).data

\* C15: whatever the order in which the workers complete, every package is
\* stored at the index of its chunk, so the chunk stream is the concatenation
\* of the packages in planning order, the same bytes the sequential encoder
\* writes, and it decodes to the same output
C15_PlanOrder ==
    /\ pc \in {"encoding", "compressed"}
          => \A i \in 1..Len(chunks) :
                results[i].ready => results[i].data = PlannedPackage(i)
    /\ (pc = "compressed" /\ Undamaged)
          => /\ Len(results) = Len(chunks)
             /\ archive = header \o Concat([i \in 1..Len(chunks) |-> PlannedPackage(i)])
                                 \o CreateEndPackage(marker_bytes_aligned)

C15_Witness ==
    /\ pc = "encoding"
    /\ Parallel
    /\ \E i, j \in 1..Len(chunks) :
          /\ i < j
          /\ results[j].ready
          /\ ~results[i].ready
          /\ PlannedPackage(i) # PlannedPackage(j)

\* C16: after compress, compressed_size_without_overhead + overhead_bytes +
\* header_size of the statistics equals the size of the archive
C16_SizeIdentity ==
    (pc = "compressed" /\ Undamaged)
        => chunk_stats.compressed_size_without_overhead + chunk_stats.overhead_bytes
              + chunk_stats.header_size = Len(archive)

\* sum(method_usage.values())
RECURSIVE SumUsage(_, _)
SumUsage(method_usage, ids) ==
    IF ids = {} THEN 0
    ELSE LET id == CHOOSE x \in ids : TRUE
         IN  method_usage[id] + SumUsage(method_usage, ids \ {id})

\* C17: after compress the per-codec counters and the stored-chunk counter
\* add up to total_chunks, and total_chunks is the number of planned chunks;
\* while chunks are being encoded the counters add up to the number of chunks
\* encoded so far
C17_CountIdentity ==
    /\ pc \in {"encoding", "compressed"}
          => /\ SumUsage(chunk_stats.method_usage, RegisteredIds) + chunk_stats.raw_chunks
                   = chunk_stats.total_chunks
             /\ chunk_stats.total_chunks
                   = Cardinality({i \in 1..Len(chunks) : results[i].ready})
    /\ pc = "compressed" => chunk_stats.total_chunks = Len(chunks)

C17_Witness ==
    /\ pc = "compressed"
    /\ chunk_stats.raw_chunks > 0
    /\ chunk_stats.compressed_chunks > 0
    /\ chunk_stats.total_chunks = Len(chunks)

\* the sum of the sizes of the first n planned chunks
RECURSIVE PlannedBytes(_)
PlannedBytes(n) == IF n = 0 THEN 0 ELSE PlannedBytes(n - 1) + chunks[n].size

\* the original length the stream records for the i-th chunk: the
\* original_length field of its package, or the length of its bare bytes
\* when the chunk is stored
RecordedLength(i) ==
    IF Processed(i).compressed
    THEN ReadVariableLengthInt(results[i].data, Len(marker_bytes_aligned) + 1).value
    ELSE Len(results[i].data)

\* C18 (A1): the planned chunks are non-empty, start at offset 0, follow one
\* another without gap or overlap and, once planning is over, cover the
\* input; the original length recorded for every chunk is the chunk's size,
\* so the recorded lengths sum to the original_size of the header
C18_ChunksCoverInput ==
    /\ \A i \in 1..Len(chunks) :
          /\ chunks[i].size >= 1
          /\ chunks[i].position = PlannedBytes(i - 1)
    /\ pc = "planning" => position = PlannedBytes(Len(chunks))
    /\ pc \in {"encoding", "compressed"}
          => /\ PlannedBytes(Len(chunks)) = Len(file_data)
             /\ \A i \in 1..Len(chunks) :
                   results[i].ready => RecordedLength(i) = chunks[i].size
    /\ (pc = "compressed" /\ Undamaged)
          => PlannedBytes(Len(chunks)) = ParseHeader(archive).original_size

C18_Witness ==
    /\ pc = "compressed"
    /\ Undamaged
    /\ Len(chunks) >= 2
    /\ \E i \in 1..Len(chunks) :
          Processed(i).compressed
    /\ ParseHeader(archive).original_size = Len(file_data)

\* C19: compress of the empty input plans no chunk and writes the header
\* followed by the end package only; decompress of that archive ends on the
\* end package, succeeds with zero output bytes, and the digest of the header
\* is MD5 of the empty input
C19_EmptyInput ==
    (file_data = << >> /\ Undamaged)
        => /\ pc \in {"encoding", "compressed", "decoding", "loop_done", "done"}
                 => chunks = << >>
           /\ pc \in {"compressed", "decoding", "loop_done", "done"}
                 => /\ archive = header \o marker_bytes_aligned \o << END_PACKAGE_TYPE >>
                    /\ HeaderError(archive) = None
                    /\ ParseHeader(archive).original_size = 0
                    /\ ParseHeader(archive).checksum = MD5(<< >>)
           /\ pc = "done"
                 => /\ outcome = "ok"
                    /\ loop_exit = "end_package"
                    /\ decompressed = << >>
                    /\ output_file = [exists |-> TRUE, data |-> << >>]
                    /\ decompress_stats.returned
                    /\ decompress_stats.decompressed_size = 0

C19_Witness ==
    /\ file_data = << >>
    /\ Undamaged
    /\ pc = "done"
    /\ outcome = "ok"
    /\ Len(archive) = Len(header) + Len(marker_bytes_aligned) + 1
    /\ output_file.exists

\* every planned chunk has been encoded and written as its bare bytes
AllStored ==
    /\ pc = "compressed"
    /\ Len(chunks) >= 1
    /\ \A i \in 1..Len(chunks) :
          ~Processed(i).compressed

\* C20 as stated: after compressing an input of which every chunk is stored
\* without compression, method_usage[255] equals total_chunks
C20_StoredUnderNoCompression ==
    AllStored => chunk_stats.method_usage[NoCompression] = chunk_stats.total_chunks

\* C20 amended: after compressing an input of which every chunk is stored
\* without compression, raw_chunks equals total_chunks and every counter of
\* method_usage, the one of id 255 included, is 0; in general
\* method_usage[255] stays 0 and raw_chunks counts the stored chunks
C20_StoredAsRawChunks ==
    /\ AllStored
          => /\ chunk_stats.raw_chunks = chunk_stats.total_chunks
             /\ chunk_stats.total_chunks = Len(chunks)
             /\ \A id \in RegisteredIds : chunk_stats.method_usage[id] = 0
             /\ chunk_stats.compressed_chunks = 0
    /\ pc \in {"encoding", "compressed"}
          => /\ chunk_stats.method_usage[NoCompression] = 0
             /\ chunk_stats.raw_chunks
                   = Cardinality({i \in 1..Len(chunks) :
                        /\ results[i].ready
                        /\ ~Processed(i).compressed})

C20_Witness ==
    /\ AllStored
    /\ Len(chunks) >= 2
    /\ chunk_stats.raw_chunks = Len(chunks)
    /\ chunk_stats.method_usage[NoCompression] = 0

\* the planned codec of the i-th chunk is a registered codec other than 255
PlannedCodec(i) ==
    chunks[i].method_id \in RegisteredIds /\ chunks[i].method_id # NoCompression

TriedCodecs(chunk, max_methods) ==
    LET method_ids == PredictBestMethods(chunk, max_methods)
    IN  {method_ids[i] : i \in 1..Len(method_ids)}
           \cap {id \in RegisteredIds : ShouldUse(id, chunk)}

C23_EncodeFailureIsolated ==
    /\ pc \in {"encoding", "compressed"}
          => /\ raised \subseteq {i \in 1..Len(chunks) : results[i].ready}
             /\ \A i \in raised : results[i].data = ChunkData(i)
             /\ chunk_stats.raw_chunks >= Cardinality(raised)
             /\ chunk_stats.raw_chunks + chunk_stats.compressed_chunks
                   = Cardinality({i \in 1..Len(chunks) : results[i].ready})
             /\ chunk_stats.compressed_chunks
                   = Cardinality({i \in 1..Len(chunks) :
                         results[i].ready /\ i \notin raised
                            /\ ProcessChunk(marker_bytes_aligned, ChunkData(i),
                                            chunks[i].method_id).compressed})
    /\ pc = "encoding" => ENABLED (FinishCompress \/ \E i \in 1..Len(chunks) : EncodeChunk(i))
    /\ (pc = "compressed" /\ Undamaged)
          => /\ \A i \in 1..Len(chunks) :
                   /\ results[i].ready
                   /\ i \notin raised
                         => results[i].data = ProcessChunk(marker_bytes_aligned, ChunkData(i),
                                                           chunks[i].method_id).data
             /\ archive = header \o Concat([i \in 1..Len(chunks) |-> results[i].data])
                                 \o CreateEndPackage(marker_bytes_aligned)

C23_Witness ==
    /\ pc = "compressed"
    /\ Len(chunks) >= 2
    /\ \E i \in raised :
          ProcessChunk(marker_bytes_aligned, ChunkData(i), chunks[i].method_id).compressed
    /\ \E i \in 1..Len(chunks) : i \notin raised /\ results[i].ready
    /\ use_multithreading

\* the plan indices of the chunks encoded so far
ReadyChunks == {i \in 1..Len(chunks) : results[i].ready}

\* the sum of one statistic of _process_chunk over the compressed chunks among
\* the first n planned chunks that are encoded
RECURSIVE SumOfReady(_, _)
SumOfReady(n, field) ==
    IF n = 0 THEN 0
    ELSE SumOfReady(n - 1, field)
           + (IF results[n].ready /\ Processed(n).compressed THEN Processed(n)[field] ELSE 0)

RECURSIVE DecodeLoop(_, _, _, _)
DecodeLoop(data, aligned, p, out) ==
    IF p >= Len(data) THEN out
    ELSE LET it == DecodeIteration(data, aligned, p, out)
         IN  IF it.exit # None THEN it.out
             ELSE DecodeLoop(data, aligned, it.pos, it.out)

\* what a compressor constructed for this call alone computes from the input
FreshMarker == FindMarker(file_data, sample_size)

FreshHeader ==
    CreateHeader(FreshMarker.bytes, FreshMarker.length, MD5(file_data), Len(file_data))

\* C25: every call on an instance that has served other calls before gives
\* what a fresh instance gives: compress takes its marker from the current
\* input and starts its statistics from zero, so plan, archive and statistics
\* are functions of the input and the settings; decompress takes its marker
\* from the header, so its output is a function of the archive
C25_InstanceReuse ==
    calls_made >= 1 =>
        /\ pc \in {"planning", "encoding", "compressed"}
              => /\ marker_bytes = FreshMarker.bytes
                 /\ marker_length = FreshMarker.length
                 /\ marker_bytes_aligned = AlignedMarker(FreshMarker.bytes, FreshMarker.length)
                 /\ chunk_stats.original_size = Len(file_data)
                 /\ chunk_stats.total_chunks = Cardinality(ReadyChunks)
                 /\ chunk_stats.compressed_chunks + chunk_stats.raw_chunks
                       = Cardinality(ReadyChunks)
                 /\ chunk_stats.bytes_saved = SumOfReady(Len(chunks), "bytes_saved")
        /\ pc \in {"encoding", "compressed"}
              => chunks = PlanFrom(file_data, 0, initial_chunk_size)
        /\ (pc = "compressed" /\ Undamaged)
              => /\ header = UpdateHeaderCompressedSize(FreshHeader,
                                                        Len(archive) - Len(FreshHeader))
                 /\ archive = header \o Concat([i \in 1..Len(chunks) |-> Processed(i).data])
                                     \o CreateEndPackage(marker_bytes_aligned)
                 /\ chunk_stats.header_size = Len(FreshHeader)
                 /\ chunk_stats.overhead_bytes
                       = SumOfReady(Len(chunks), "overhead")
                            + Len(CreateEndPackage(marker_bytes_aligned)) + Len(FreshHeader)
        /\ (pc \in {"decoding", "loop_done"} \/ (pc = "done" /\ LoopRan))
              => /\ header_info = ParseHeader(archive)
                 /\ marker_bytes = header_info.marker_bytes
                 /\ marker_length = header_info.marker_length
                 /\ marker_bytes_aligned
                       = AlignedMarker(header_info.marker_bytes, header_info.marker_length)
        /\ (pc = "done" /\ LoopRan)
              => /\ output_file.data
                       = FitOriginalSize(
                            DecodeLoop(Slice(archive, ParseHeader(archive).header_size,
                                             Len(archive)),
                                       AlignedMarker(ParseHeader(archive).marker_bytes,
                                                     ParseHeader(archive).marker_length),
                                       0, << >>),
                            ParseHeader(archive).original_size)
                 /\ outcome = IF VerifyChecksum(output_file.data, ParseHeader(archive).checksum)
                              THEN "ok" ELSE "checksum_mismatch"

C25_Witness ==
    /\ calls_made = 1
    /\ pc = "done"
    /\ outcome = "ok"
    /\ file_data = << 0, 0, 0, 0, 0, 0, 0, 1 >>
    /\ chunk_stats.compressed_chunks = 1
    /\ chunk_stats.total_chunks = Len(chunks)
    /\ output_file.data = file_data

\* the library a codec outside the four basic ones and Store needs is there
LibraryAvailable(env, id) ==
    CASE id \in {DEFLATE, BZIP2, LZMA} -> env.advanced
      [] id = ZStandard -> env.advanced /\ env.zstd
      [] id = LZ4 -> env.advanced /\ env.lz4
      [] id = Brotli -> env.brotli
      [] id = LZHAM -> env.lzham

\* C26: the codec list of a constructed compressor starts with RLE,
\* Dictionary, Huffman, Delta, holds each external codec exactly when its
\* library is available, ends with Store (255), and holds no codec id twice
C26_RegistryConstruction ==
    (pc = "called" /\ call.op = "registry")
        => LET methods == call.result
               ids == {methods[i] : i \in 1..Len(methods)}
           IN  /\ SubSeq(methods, 1, 4) = << RLE, Dictionary, Huffman, Delta >>
               /\ methods[Len(methods)] = NoCompression
               /\ \A id \in {DEFLATE, BZIP2, LZMA, ZStandard, LZ4, Brotli, LZHAM} :
                     id \in ids <=> LibraryAvailable(call.env, id)
               /\ \A i, j \in 1..Len(methods) : methods[i] = methods[j] => i = j

\* C27: every call of _determine_optimal_chunk at a position before the end
\* of the input returns a size between 1 and min(65536, what is left), so the
\* planning loop advances with every chunk and ends with position = |input|
C27_PlanningTerminates ==
    /\ initial_chunk_size >= 1
    /\ \A i \in 1..Len(chunks) :
          /\ 1 <= chunks[i].size
          /\ chunks[i].size <= Min(MaxChunkSize, Len(file_data) - chunks[i].position)
          /\ chunks[i].position < NextPosition(chunks[i].position, chunks[i].size)
    /\ pc = "planning" => position <= Len(file_data)
    /\ pc = "encoding" => position = Len(file_data)
    /\ (pc = "called" /\ call.op = "plan")
          => /\ call.position < Len(call.data)
             /\ 1 <= call.result.size
             /\ call.result.size
                   <= Min(MaxChunkSize, Len(call.data) - call.position)

C27_Witness ==
    /\ pc = "encoding"
    /\ Len(chunks) >= 2
    /\ position = Len(file_data)
    /\ chunks[1].size = initial_chunk_size
    /\ chunks[Len(chunks)].size < initial_chunk_size

\* C28: with a marker of at least one byte, every iteration of the chunk loop
\* of _adaptive_decompress that does not leave the loop moves the read
\* position forward and not beyond the end of the data, so the loop ends
\* after at most |data| iterations; the output returned has exactly
\* original_size bytes
C28_DecodingTerminates ==
    [][ /\ (pc = "decoding" /\ Len(marker_bytes_aligned) >= 1)
             => /\ pc' \in {"decoding", "loop_done"}
                /\ (pc' = "decoding" \/ loop_exit' = "exhausted")
                      => (pos < pos' /\ pos' <= Len(data_to_decompress))
                /\ pc' = "decoding" => pos' < Len(data_to_decompress)
        /\ (pc = "loop_done" /\ Len(marker_bytes_aligned) >= 1)
             => (pc' = "done" /\ Len(decompressed') = header_info.original_size) ]_vars

C28_Witness ==
    /\ pc = "done"
    /\ Len(marker_bytes_aligned) >= 1
    /\ corrupted
    /\ loop_exit = "exhausted"
    /\ 0 < pos /\ pos = Len(data_to_decompress)
    /\ header_info.original_size > 0
    /\ Len(decompressed) = header_info.original_size
    /\ decompressed # file_data

\* the bytes of the chunk stream: the archive behind its header
ChunkStream == Slice(archive, Len(header), Len(archive))

\* C29: a package emitted for a compressed chunk is strictly shorter than the
\* chunk, because the overhead estimated from the original length is not
\* smaller than the overhead written; a stored chunk is emitted with the
\* length of the chunk; so the chunk stream is not longer than the input
\* plus the end package
C29_NoChunkExpansion ==
    /\ \A i \in 1..Len(chunks) :
          results[i].ready
             => IF Processed(i).compressed
                THEN /\ Len(results[i].data) < chunks[i].size
                     /\ Len(results[i].data)
                           <= Processed(i).compressed_size + Processed(i).overhead
                ELSE Len(results[i].data) = chunks[i].size
    /\ (pc = "compressed" /\ Undamaged)
          => Len(ChunkStream)
                <= Len(file_data) + Len(CreateEndPackage(marker_bytes_aligned))
    /\ (pc = "called" /\ call.op = "package")
          => IF call.result.compressed
             THEN /\ Len(call.result.data) < Len(call.data)
                  /\ Len(call.result.data) - call.result.compressed_size
                        <= call.result.overhead
             ELSE call.result.data = call.data

\* a package whose two length fields take two bytes each, as estimated
C29_Witness ==
    /\ pc = "called"
    /\ call.op = "package"
    /\ call.result.compressed
    /\ call.result.compressed_size >= 128
    /\ Len(call.result.data) = call.result.compressed_size + call.result.overhead
    /\ Len(call.result.data) = Len(call.data) - 1

\* C30: a value v with 0 <= v < 2^28 appended by _encode_variable_length
\* takes 1, 2, 3 or 4 bytes (v below 2^7, 2^14, 2^21, 2^28), and
\* _read_variable_length_int at the start of those bytes returns v and the
\* position behind them
C30_VarintRoundTrip ==
    (pc = "called" /\ call.op = "varint")
        => /\ 0 <= call.value /\ call.value < 2 ^ 28
           /\ Len(call.written) = (IF call.value < 2 ^ 7 THEN 1
                                    ELSE IF call.value < 2 ^ 14 THEN 2
                                    ELSE IF call.value < 2 ^ 21 THEN 3 ELSE 4)
           /\ \A i \in 1..Len(call.written) : call.written[i] \in 0..255
           /\ call.result.value = call.value
           /\ call.result.pos = Len(call.prefix) + Len(call.written)

C30_Witness ==
    /\ pc = "called"
    /\ call.op = "varint"
    /\ call.value = 2 ^ 28 - 1
    /\ call.prefix # << >>
    /\ call.suffix # << >>
    /\ call.written = << 255, 255, 255, 127 >>
    /\ call.result = [value |-> call.value, pos |-> 5]

====
